---- MODULE Spec2Model ----
(***************************************************************************)
(* A model of micromidi_generator.py: the pitch-name parser                *)
(* (note_name_to_midi), the event scheduler (write_events_to_track) and    *)
(* the CSV-to-MIDI pipeline (generate_24edo_sequencer).                    *)
(*                                                                         *)
(* Text is modelled as a sequence of one-character strings.  A numeric CSV *)
(* field is modelled as a token [cls, num] (see ParseInt / ParseFloat).    *)
(* Event records carry one auxiliary field, "row": the index of the CSV    *)
(* row that produced the event.  The program never reads it; it is a       *)
(* history field that lets properties speak about "the events of a row".   *)
(***************************************************************************)
EXTENDS Integers, Sequences, FiniteSets, TLC

VARIABLES
    pc,            \* position in generate_24edo_sequencer, or in the parser run
    input,         \* state of input_filename: "missing", "unreadable", "ok"
    header,        \* TRUE iff the file has a first line (the header)
    rows,          \* the data rows that follow the header
    i,             \* index of the row the csv reader yields next
    clean_events,  \* list for channel 0
    bent_events,   \* list for channel 1
    tracks,        \* mid.tracks
    output,        \* the saved document (a sequence of tracks), <<>> if none
    outcome,       \* "running", "returned", "saved", "raised"
    note_name,     \* argument of a stand-alone note_name_to_midi call
    midi_result    \* its result

vars == <<pc, input, header, rows, i, clean_events, bent_events, tracks,
          output, outcome, note_name, midi_result>>

TICKS_PER_SECOND == 960

\* Bounds of the explored inputs.
MaxRows == 2
MaxLen == 4

\* ------------------------------------------------------------------------
\* Text helpers: str.strip(), str.upper(), int() on a matched octave string
\* ------------------------------------------------------------------------

Digits == <<"0", "1", "2", "3", "4", "5", "6", "7", "8", "9">>

IsDigit(c) == \E k \in 1..Len(Digits) : Digits[k] = c

DigitVal(c) == (CHOOSE k \in 1..Len(Digits) : Digits[k] = c) - 1

IsSpace(c) == c \in {" ", "\t"}

Lower == <<"a", "b", "c", "d", "e", "f", "g", "h">>

UpperOf == <<"A", "B", "C", "D", "E", "F", "G", "H">>

Upper(c) ==
    IF \E k \in 1..Len(Lower) : Lower[k] = c
    THEN UpperOf[CHOOSE k \in 1..Len(Lower) : Lower[k] = c]
    ELSE c

UpperStr(s) == [k \in 1..Len(s) |-> Upper(s[k])]

RECURSIVE LStrip(_)
LStrip(s) == IF s # <<>> /\ IsSpace(Head(s)) THEN LStrip(Tail(s)) ELSE s

RECURSIVE RStrip(_)
RStrip(s) ==
    IF s # <<>> /\ IsSpace(s[Len(s)])
    THEN RStrip(SubSeq(s, 1, Len(s) - 1))
    ELSE s

Strip(s) == RStrip(LStrip(s))

\* value of a non-empty digit string, most significant digit first
RECURSIVE DigitsVal(_)
DigitsVal(s) ==
    IF s = <<>> THEN 0
    ELSE 10 * DigitsVal(SubSeq(s, 1, Len(s) - 1)) + DigitVal(s[Len(s)])

\* int(octave_str) for a string that matched -?\d+
IntOf(s) == IF Head(s) = "-" THEN 0 - DigitsVal(Tail(s)) ELSE DigitsVal(s)

\* ------------------------------------------------------------------------
\* note_name_to_midi
\* ------------------------------------------------------------------------

\* -?\d+ anchored at both ends
MatchesOctave(s) ==
    LET d == IF s # <<>> /\ Head(s) = "-" THEN Tail(s) ELSE s
    IN  d # <<>> /\ \A k \in 1..Len(d) : IsDigit(d[k])

\* re.match(r"^([A-G][#B]?)(-?\d+)$", s): the two groups, or <<>> for None.
\* The optional accidental is tried first; when it is present the rest cannot
\* start the octave, so the alternatives never both match.
ReMatch(s) ==
    IF s = <<>> \/ Head(s) \notin {"A", "B", "C", "D", "E", "F", "G"} THEN <<>>
    ELSE IF Len(s) >= 2 /\ s[2] \in {"#", "B"} /\ MatchesOctave(SubSeq(s, 3, Len(s)))
         THEN <<SubSeq(s, 1, 2), SubSeq(s, 3, Len(s))>>
    ELSE IF MatchesOctave(Tail(s))
         THEN <<SubSeq(s, 1, 1), Tail(s)>>
    ELSE <<>>

offsets(letter) ==
    CASE letter = "C" -> 0
      [] letter = "D" -> 2
      [] letter = "E" -> 4
      [] letter = "F" -> 5
      [] letter = "G" -> 7
      [] letter = "A" -> 9
      [] letter = "B" -> 11

base_pitch(pitch_str) ==
    offsets(pitch_str[1])
    + (IF Len(pitch_str) > 1
       THEN (IF pitch_str[2] = "#" THEN 1
             ELSE IF pitch_str[2] = "B" THEN 0 - 1 ELSE 0)
       ELSE 0)

Max(a, b) == IF a >= b THEN a ELSE b

Min(a, b) == IF a <= b THEN a ELSE b

Clamp0_127Wrong(n) == n

\* max(0, min(127, midi_note))
Clamp0_127(n) == Max(0, Min(127, n))

\* The result is [raised |-> TRUE] for ValueError("Invalid note format"),
\* else [raised |-> FALSE, value |-> the note number].
note_name_to_midi(name) ==
    LET s == UpperStr(Strip(name))
        m == ReMatch(s)
    IN  IF m = <<>> THEN [raised |-> TRUE, value |-> 0]
        ELSE [raised |-> FALSE,
              value  |-> Clamp0_127((IntOf(m[2]) + 1) * 12 + base_pitch(m[1]))]

\* ------------------------------------------------------------------------
\* Numeric CSV fields
\* ------------------------------------------------------------------------

\* A field's text is modelled by what int() and float() make of it:
\*   "int": an integer literal of value num       ("2048", "0", "-3")
\*   "dec": a decimal literal of value num / Den  ("0.5" is num = Den \div 2)
\*   "inf": "inf" or "-inf";  "nan": "nan";  "bad": not a number ("x", "")
\* Den is a power of two, so every value and every product below is exact in
\* binary floating point.
Den == 2 ^ 10

Tok(cls, num) == [cls |-> cls, num |-> num]

\* int(field.strip()): the integer, or ValueError
ParseInt(tok) ==
    IF tok.cls = "int" THEN [exc |-> "none", value |-> tok.num]
    ELSE [exc |-> "ValueError", value |-> 0]

\* float(field.strip()): a float [kind, n] of value n / Den, or ValueError
ParseFloat(tok) ==
    CASE tok.cls = "int" -> [exc |-> "none", kind |-> "fin", n |-> tok.num * Den]
      [] tok.cls = "dec" -> [exc |-> "none", kind |-> "fin", n |-> tok.num]
      [] tok.cls = "inf" -> [exc |-> "none", kind |-> "inf", n |-> 0]
      [] tok.cls = "nan" -> [exc |-> "none", kind |-> "nan", n |-> 0]
      [] OTHER           -> [exc |-> "ValueError", kind |-> "fin", n |-> 0]

\* floor(p / q) for q > 0
FloorDiv(p, q) == p \div q

\* int(x) of the float p / q: truncation toward zero
TruncDiv(p, q) == IF p >= 0 THEN p \div q ELSE 0 - ((0 - p) \div q)

\* round(x) of the float p / q: to nearest, ties to the even integer
RoundHalfEven(p, q) ==
    LET f == FloorDiv(p, q)
        r == 2 * (p - f * q)
    IN  IF r < q THEN f
        ELSE IF r > q THEN f + 1
        ELSE IF f % 2 = 0 THEN f ELSE f + 1

\* int(round(f * k)) and int(f * k) of a float f and an integer k:
\* nan raises ValueError, an infinity raises OverflowError
IntRound(f, k) ==
    CASE f.kind = "nan" -> [exc |-> "ValueError", value |-> 0]
      [] f.kind = "inf" -> [exc |-> "OverflowError", value |-> 0]
      [] OTHER          -> [exc |-> "none", value |-> RoundHalfEven(f.n * k, Den)]

IntTrunc(f, k) ==
    CASE f.kind = "nan" -> [exc |-> "ValueError", value |-> 0]
      [] f.kind = "inf" -> [exc |-> "OverflowError", value |-> 0]
      [] OTHER          -> [exc |-> "none", value |-> TruncDiv(f.n * k, Den)]

\* ------------------------------------------------------------------------
\* One CSV row (lines 88-134)
\* ------------------------------------------------------------------------

\* A row is [n, name, bend, vel, dur, start]: n is len(row); row[0] is the
\* note name, row[1] the bend, row[2] the velocity, row[3] the duration and
\* row[4] the start time.

\* The statements of the try block in program order, each with the exception
\* it raises ("none" if it completes).
RowSteps(row) ==
    LET bend  == ParseInt(row.bend)
        velf  == ParseFloat(row.vel)
        vel   == IF velf.exc = "none" THEN IntRound(velf, 127) ELSE velf
        durf  == ParseFloat(row.dur)
        stf   == ParseFloat(row.start)
        note  == note_name_to_midi(row.name)
        st    == IF stf.exc = "none" THEN IntTrunc(stf, TICKS_PER_SECOND) ELSE stf
        du    == IF durf.exc = "none" THEN IntTrunc(durf, TICKS_PER_SECOND) ELSE durf
    IN  << bend.exc,                                          \* line 92
           vel.exc,                                           \* line 93
           durf.exc,                                          \* line 94
           stf.exc,                                           \* line 95
           IF note.raised THEN "ValueError" ELSE "none",      \* line 97
           st.exc,                                            \* line 98
           du.exc >>                                          \* line 99

RECURSIVE FirstRaised(_)
FirstRaised(steps) ==
    IF steps = <<>> THEN "none"
    ELSE IF Head(steps) # "none" THEN Head(steps)
    ELSE FirstRaised(Tail(steps))

\* "short": fewer than five columns, the row is passed over;
\* "none": the row is accepted; otherwise the exception the row raises.
RowOutcome(row) == IF row.n < 5 THEN "short" ELSE FirstRaised(RowSteps(row))

\* the per-row handler: except ValueError (line 136)
InnerCatches(exc) == exc = "ValueError"

\* the values computed by an accepted row
bend_val(row) == ParseInt(row.bend).value

velocity(row) == IntRound(ParseFloat(row.vel), 127).value

midi_note(row) == note_name_to_midi(row.name).value

start_ticks(row) == IntTrunc(ParseFloat(row.start), TICKS_PER_SECOND).value

duration_ticks(row) == IntTrunc(ParseFloat(row.dur), TICKS_PER_SECOND).value

end_ticks(row) == start_ticks(row) + duration_ticks(row)

TargetAlwaysClean(row) == "clean"

\* target_list = bent_events if bend_val != 0 else clean_events
target_list(row) == IF bend_val(row) # 0 THEN "bent" ELSE "clean"

\* the events an accepted row appends to its target list, in order
RowEvents(row, r) ==
    (IF bend_val(row) # 0
     THEN << [time |-> start_ticks(row), priority |-> 0, type |-> "pitchwheel",
              val |-> bend_val(row), row |-> r] >>
     ELSE << >>)
    \o << [time |-> start_ticks(row), priority |-> 1, type |-> "note_on",
           note |-> midi_note(row), vel |-> velocity(row), row |-> r],
          [time |-> end_ticks(row), priority |-> 0, type |-> "note_off",
           note |-> midi_note(row), vel |-> 0, row |-> r] >>

\* ------------------------------------------------------------------------
\* write_events_to_track
\* ------------------------------------------------------------------------

KeyLETimeOnly(a, b) == a.time <= b.time

\* (x['time'], x['priority']) <= (y['time'], y['priority'])
KeyLE(a, b) == a.time < b.time \/ (a.time = b.time /\ a.priority <= b.priority)

\* list.sort is stable: an element goes after every element whose key is
\* not greater
RECURSIVE InsertSorted(_, _)
InsertSorted(s, e) ==
    IF s = <<>> THEN <<e>>
    ELSE IF KeyLE(Head(s), e) THEN <<Head(s)>> \o InsertSorted(Tail(s), e)
    ELSE <<e>> \o s

RECURSIVE SortEvents(_)
SortEvents(list) ==
    IF list = <<>> THEN <<>>
    ELSE InsertSorted(SortEvents(SubSeq(list, 1, Len(list) - 1)), list[Len(list)])

DeltaAbsolute(time, last_tick_time) == time

\* delta_time = event['time'] - last_tick_time; if delta_time < 0: delta_time = 0
DeltaTime(time, last_tick_time) ==
    IF time - last_tick_time < 0 THEN 0 ELSE time - last_tick_time

\* the Message built for one event
MessageOf(event, channel, delta_time) ==
    IF event.type = "pitchwheel"
    THEN [type |-> "pitchwheel", channel |-> channel, pitch |-> event.val,
          time |-> delta_time]
    ELSE [type |-> event.type, channel |-> channel, note |-> event.note,
          velocity |-> event.vel, time |-> delta_time]

\* The Message constructor of the MIDI library validates its arguments and
\* raises ValueError for a data byte outside 0..127 or a pitch outside
\* -8192..8191.
MessageOk(msg) ==
    IF msg.type = "pitchwheel"
    THEN msg.pitch >= 0 - 8192 /\ msg.pitch <= 8191
    ELSE msg.note \in 0..127 /\ msg.velocity \in 0..127

\* the loop of lines 59-71 from event k on: [track, raised]
RECURSIVE EmitFrom(_, _, _, _, _)
EmitFrom(track, sorted, k, last_tick_time, channel) ==
    IF k > Len(sorted) THEN [track |-> track, raised |-> FALSE]
    ELSE LET event == sorted[k]
             msg   == MessageOf(event, channel, DeltaTime(event.time, last_tick_time))
         IN  IF ~MessageOk(msg) THEN [track |-> track, raised |-> TRUE]
             ELSE EmitFrom(Append(track, msg), sorted, k + 1, event.time, channel)

\* [track, event_list, raised]: the track with the messages appended, the
\* list as the in-place sort leaves it, and whether a Message raised
write_events_to_track(track, event_list, channel) ==
    LET sorted == SortEvents(event_list)
        res    == EmitFrom(track, sorted, 1, 0, channel)
    IN  [track |-> res.track, event_list |-> sorted, raised |-> res.raised]

\* ------------------------------------------------------------------------
\* Explored inputs
\* ------------------------------------------------------------------------

C4 == <<"C", "4">>

H4 == <<"H", "4">>

Row(n, name, bend, vel, dur, start) ==
    [n |-> n, name |-> name, bend |-> bend, vel |-> vel, dur |-> dur, start |-> start]

Half == Tok("dec", Den \div 2)        \* "0.5"

\* Well-formed rows: bend 0 / +2048 / -2048, velocity 0.5, a duration of
\* 1/Den s (under one tick) or 3/Den s (two ticks), a start of -2/Den s
\* (tick -1), 0 or 2/Den s (tick 1).
TimingRows ==
    { Row(5, C4, Tok("int", b), Half, Tok("dec", d), st) :
        b \in {0, 2048, 0 - 2048}, d \in {1, 3},
        st \in {Tok("dec", 0 - 2), Tok("int", 0), Tok("dec", 2)} }

\* One row for each other way a row can go.
OtherRows ==
    { Row(5, C4, Tok("int", 0), Half, Tok("int", 0), Tok("int", 0)),            \* zero duration
      Row(5, H4, Tok("int", 0), Half, Tok("dec", 3), Tok("int", 0)),            \* bad note name
      Row(5, C4, Tok("bad", 0), Half, Tok("dec", 3), Tok("int", 0)),            \* bend "x"
      Row(5, C4, Tok("dec", Den), Half, Tok("dec", 3), Tok("int", 0)),          \* bend "1.0"
      Row(5, C4, Tok("int", 0), Tok("bad", 0), Tok("dec", 3), Tok("int", 0)),   \* velocity "x"
      Row(5, C4, Tok("int", 0), Tok("nan", 0), Tok("dec", 3), Tok("int", 0)),   \* velocity "nan"
      Row(5, C4, Tok("int", 0), Tok("inf", 0), Tok("dec", 3), Tok("int", 0)),   \* velocity "inf"
      Row(5, C4, Tok("int", 0), Tok("dec", 3 * (Den \div 2)), Tok("dec", 3), Tok("int", 0)),  \* velocity "1.5"
      Row(5, C4, Tok("int", 0), Half, Tok("bad", 0), Tok("int", 0)),            \* duration "x"
      Row(5, H4, Tok("int", 2048), Half, Tok("inf", 0), Tok("int", 0)),         \* bad name, duration "inf"
      Row(5, H4, Tok("int", 0), Tok("inf", 0), Tok("dec", 3), Tok("int", 0)),   \* bad name, velocity "inf"
      Row(5, C4, Tok("int", 2048), Half, Tok("dec", 3), Tok("nan", 0)),         \* start "nan"
      Row(5, C4, Tok("int", 2048), Half, Tok("dec", 3), Tok("inf", 0)),         \* start "inf"
      Row(4, C4, Tok("int", 0), Half, Tok("dec", 3), Tok("bad", 0)) }           \* four columns

Rows == TimingRows \cup OtherRows

SeqsUpTo(S, n) == UNION { [1..k -> S] : k \in 0..n }

\* the characters note names are built from in the parser runs
Alphabet == {"C", "B", "b", "H", "#", "-", "+", "1", "9", " "}

\* the note names the documentation gives as examples, and F#4
ExampleNames ==
    { <<"C", "4">>, <<"c", "4">>, <<"F", "#", "5">>, <<"F", "#", "4">>,
      <<"B", "b", "3">> }

NoResult == [raised |-> FALSE, value |-> 0 - 1]

\* ------------------------------------------------------------------------
\* generate_24edo_sequencer as a state machine
\* ------------------------------------------------------------------------

Init ==
    /\ pc = "start"
    /\ input \in {"missing", "unreadable", "ok"}
    /\ header \in BOOLEAN
    /\ rows \in SeqsUpTo(Rows, MaxRows)
    /\ (input # "ok" => ~header)
    /\ (~header => rows = <<>>)
    /\ i = 1
    /\ clean_events = <<>>
    /\ bent_events = <<>>
    /\ tracks = <<>>
    /\ output = <<>>
    /\ outcome = "running"
    /\ note_name = <<>>
    /\ midi_result = NoResult

Return ==
    /\ pc' = "done"
    /\ outcome' = "returned"

\* lines 74-76: the input path does not exist
InputNotFound ==
    /\ pc = "start" /\ input = "missing"
    /\ Return
    /\ UNCHANGED <<input, header, rows, i, clean_events, bent_events, tracks,
                   output, note_name, midi_result>>

\* lines 83-84, 139-141: the path exists but open() raises
OpenFails ==
    /\ pc = "start" /\ input = "unreadable"
    /\ Return
    /\ UNCHANGED <<input, header, rows, i, clean_events, bent_events, tracks,
                   output, note_name, midi_result>>

\* lines 80-86: the lists are created, the file opened, the header skipped
OpenAndSkipHeader ==
    /\ pc = "start" /\ input = "ok"
    /\ pc' = "rows"
    /\ i' = 1
    /\ clean_events' = <<>>
    /\ bent_events' = <<>>
    /\ UNCHANGED <<input, header, rows, tracks, output, outcome, note_name,
                   midi_result>>

AtRow == pc = "rows" /\ i <= Len(rows)

\* lines 88-134: a row of five columns whose statements all complete
AcceptRow ==
    /\ AtRow /\ RowOutcome(rows[i]) = "none"
    /\ clean_events' = IF target_list(rows[i]) = "clean"
                       THEN clean_events \o RowEvents(rows[i], i)
                       ELSE clean_events
    /\ bent_events' = IF target_list(rows[i]) = "bent"
                      THEN bent_events \o RowEvents(rows[i], i)
                      ELSE bent_events
    /\ i' = i + 1
    /\ UNCHANGED <<pc, input, header, rows, tracks, output, outcome, note_name,
                   midi_result>>

\* lines 136-137: the row raised an exception the per-row handler catches
SkipRow ==
    /\ AtRow /\ RowOutcome(rows[i]) \notin {"none", "short"}
    /\ InnerCatches(RowOutcome(rows[i]))
    /\ i' = i + 1
    /\ UNCHANGED <<pc, input, header, rows, clean_events, bent_events, tracks,
                   output, outcome, note_name, midi_result>>

\* line 88: fewer than five columns
ShortRow ==
    /\ AtRow /\ RowOutcome(rows[i]) = "short"
    /\ i' = i + 1
    /\ UNCHANGED <<pc, input, header, rows, clean_events, bent_events, tracks,
                   output, outcome, note_name, midi_result>>

\* lines 139-141: the row raised an exception the per-row handler does not
\* catch; the handler around the whole loop reports "File Error" and returns
AbortOnRow ==
    /\ AtRow /\ RowOutcome(rows[i]) \notin {"none", "short"}
    /\ ~InnerCatches(RowOutcome(rows[i]))
    /\ Return
    /\ UNCHANGED <<input, header, rows, i, clean_events, bent_events, tracks,
                   output, note_name, midi_result>>

\* the reader is exhausted
EndOfRows ==
    /\ pc = "rows" /\ i > Len(rows)
    /\ pc' = "check"
    /\ UNCHANGED <<input, header, rows, i, clean_events, bent_events, tracks,
                   output, outcome, note_name, midi_result>>

\* lines 143-145
NoValidEvents ==
    /\ pc = "check" /\ clean_events = <<>> /\ bent_events = <<>>
    /\ Return
    /\ UNCHANGED <<input, header, rows, i, clean_events, bent_events, tracks,
                   output, note_name, midi_result>>

\* track.name = ... on a new MidiTrack inserts a track_name meta message
NamedTrack(name) == << [type |-> "track_name", name |-> name, time |-> 0] >>

SetTempo == [type |-> "set_tempo", tempo |-> 500000, time |-> 0]

ProgramChange(channel) ==
    [type |-> "program_change", channel |-> channel, program |-> 0, time |-> 0]

EndOfTrack == [type |-> "end_of_track", time |-> 0]

\* lines 149-162: the document and the Clean track
WriteCleanTrack ==
    /\ pc = "check" /\ ~(clean_events = <<>> /\ bent_events = <<>>)
    /\ LET track_clean == NamedTrack("Standard Notes")
                             \o <<SetTempo, ProgramChange(0)>>
           w == write_events_to_track(track_clean, clean_events, 0)
       IN  /\ clean_events' = w.event_list
           /\ IF w.raised
              THEN /\ tracks' = <<w.track>>
                   /\ pc' = "done"
                   /\ outcome' = "raised"
              ELSE /\ tracks' = <<Append(w.track, EndOfTrack)>>
                   /\ pc' = "bent"
                   /\ outcome' = outcome
    /\ UNCHANGED <<input, header, rows, i, bent_events, output, note_name,
                   midi_result>>

BentTrackAlways(events) == TRUE

\* line 165: if bent_events
BentTrackWanted(events) == events # <<>>

\* lines 165-175: the Bent track
WriteBentTrack ==
    /\ pc = "bent" /\ BentTrackWanted(bent_events)
    /\ LET track_bent == NamedTrack("Microtonal Notes") \o <<ProgramChange(1)>>
           w == write_events_to_track(track_bent, bent_events, 1)
       IN  /\ bent_events' = w.event_list
           /\ IF w.raised
              THEN /\ tracks' = Append(tracks, w.track)
                   /\ pc' = "done"
                   /\ outcome' = "raised"
              ELSE /\ tracks' = Append(tracks, Append(w.track, EndOfTrack))
                   /\ pc' = "save"
                   /\ outcome' = outcome
    /\ UNCHANGED <<input, header, rows, i, clean_events, output, note_name,
                   midi_result>>

NoBentTrack ==
    /\ pc = "bent" /\ ~BentTrackWanted(bent_events)
    /\ pc' = "save"
    /\ UNCHANGED <<input, header, rows, i, clean_events, bent_events, tracks,
                   output, outcome, note_name, midi_result>>

\* lines 177-179
Save ==
    /\ pc = "save"
    /\ output' = tracks
    /\ pc' = "done"
    /\ outcome' = "saved"
    /\ UNCHANGED <<input, header, rows, i, clean_events, bent_events, tracks,
                   note_name, midi_result>>

Next ==
    \/ InputNotFound
    \/ OpenFails
    \/ OpenAndSkipHeader
    \/ AcceptRow
    \/ SkipRow
    \/ ShortRow
    \/ AbortOnRow
    \/ EndOfRows
    \/ NoValidEvents
    \/ WriteCleanTrack
    \/ WriteBentTrack
    \/ NoBentTrack
    \/ Save

Spec == Init /\ [][Next]_vars

\* ------------------------------------------------------------------------
\* Stand-alone runs of note_name_to_midi
\* ------------------------------------------------------------------------

InitPitch ==
    /\ pc = "pitch"
    /\ note_name \in SeqsUpTo(Alphabet, MaxLen) \cup ExampleNames
    /\ midi_result = NoResult
    /\ input = "missing"
    /\ header = FALSE
    /\ rows = <<>>
    /\ i = 1
    /\ clean_events = <<>>
    /\ bent_events = <<>>
    /\ tracks = <<>>
    /\ output = <<>>
    /\ outcome = "running"

CallNoteNameToMidi ==
    /\ pc = "pitch"
    /\ midi_result' = note_name_to_midi(note_name)
    /\ pc' = "pitch_done"
    /\ UNCHANGED <<input, header, rows, i, clean_events, bent_events, tracks,
                   output, outcome, note_name>>

NextPitch == CallNoteNameToMidi

SpecPitch == InitPitch /\ [][NextPitch]_vars

\* ------------------------------------------------------------------------
\* Vocabulary of the properties
\* ------------------------------------------------------------------------

\* the rows the loop has accepted so far
AcceptedRows == { k \in 1..Len(rows) : k < i /\ RowOutcome(rows[k]) = "none" }

\* both tracks are complete
Written == pc = "save" \/ outcome = "saved"

IsScheduled(m) == m.type \in {"pitchwheel", "note_on", "note_off"}

\* the scheduled messages of a track, in emitted order
Scheduled(track) == SelectSeq(track, IsScheduled)

\* positions of the events of kind ty that row r put into list
Positions(list, r, ty) ==
    { k \in 1..Len(list) : list[k].row = r /\ list[k].type = ty }

RowPositions(list, r) == { k \in 1..Len(list) : list[k].row = r }

\* the bend written in row r of the input (an integer literal, for an
\* accepted row)
InputBend(r) == rows[r].bend.num

\* the partition the row's bend assigns it to, and the other one
OwnList(r) == IF InputBend(r) # 0 THEN bent_events ELSE clean_events

OtherList(r) == IF InputBend(r) # 0 THEN clean_events ELSE bent_events

\* track t is complete: it ends with the track-end marker
TrackComplete(t) ==
    t <= Len(tracks) /\ tracks[t][Len(tracks[t])].type = "end_of_track"

\* the list track t was written from (sorted in place by the write)
EventsOf(t) == IF t = 1 THEN clean_events ELSE bent_events

\* the pitch-bend value in force at position k of a message stream
\* (0, the centre, before the first pitchwheel message)
BendInForce(stream, k) ==
    LET P == { j \in 1..k : stream[j].type = "pitchwheel" }
    IN  IF P = {} THEN 0
        ELSE stream[CHOOSE j \in P : \A j2 \in P : j2 <= j].pitch

\* C1: every accepted bent row sounds at its own bend from its NoteOn up to
\* its NoteOff: at each of those positions of the Bent track's stream the
\* pitch bend in force is the row's bend.
C1_OwnBendWhileSounding ==
    (Written /\ Len(tracks) = 2) =>
        LET stream == Scheduled(tracks[2])
        IN  \A p \in 1..Len(bent_events) :
                bent_events[p].type = "note_on" =>
                    LET r == bent_events[p].row
                        q == CHOOSE k \in Positions(bent_events, r, "note_off") : TRUE
                    IN  \A k \in {p} \cup (p..q) :
                            BendInForce(stream, k) = InputBend(r)

\* C2: once all rows are translated, every accepted row has exactly one
\* NoteOn and one NoteOff, of the same note, in its own partition (Bent iff
\* its bend is not 0) and nothing in the other; it has a PitchBend iff its
\* bend is not 0; the Clean partition holds no PitchBend.
C2_PartitionInvariant ==
    (pc = "check" \/ pc = "bent" \/ Written) =>
        /\ \A r \in AcceptedRows :
              LET own == OwnList(r)
                  on  == Positions(own, r, "note_on")
                  off == Positions(own, r, "note_off")
                  pb  == Positions(own, r, "pitchwheel")
              IN  /\ Cardinality(on) = 1
                  /\ Cardinality(off) = 1
                  /\ \A a \in on : \A b \in off : own[a].note = own[b].note
                  /\ RowPositions(OtherList(r), r) = {}
                  /\ Cardinality(pb) = (IF InputBend(r) # 0 THEN 1 ELSE 0)
        /\ \A k \in 1..Len(clean_events) : clean_events[k].type # "pitchwheel"

\* reached: a bent row and a clean row were both accepted
C2_Witness ==
    /\ pc = "check"
    /\ \E r1, r2 \in AcceptedRows :
          InputBend(r1) # 0 /\ InputBend(r2) = 0

Occurrences(list, e) == Cardinality({ k \in 1..Len(list) : list[k] = e })

IsPermutation(a, b) ==
    /\ Len(a) = Len(b)
    /\ \A k \in 1..Len(a) : Occurrences(a, a[k]) = Occurrences(b, a[k])

\* message m carries event e
Carries(m, e) ==
    /\ m.type = e.type
    /\ IF e.type = "pitchwheel" THEN m.pitch = e.val
       ELSE m.note = e.note /\ m.velocity = e.vel

\* what a completed write_events_to_track call made of the list `before`
OrderedEmission(before, after, stream) ==
    /\ IsPermutation(before, after)
    /\ Len(stream) = Len(after)
    /\ \A k \in 1..Len(after) : Carries(stream[k], after[k])
    /\ \A k \in 1..(Len(after) - 1) : after[k].time <= after[k + 1].time
    /\ \A a, b \in 1..Len(after) :
          (after[a].type = "pitchwheel" /\ after[b].type = "note_on"
             /\ after[a].time = after[b].time) => a < b

\* C3: every completed write_events_to_track call emits a permutation of
\* its event list in which absolute times never decrease and, at equal
\* time, every PitchBend comes before every NoteOn, whatever rows they are
\* from.
C3_OrderingInvariant ==
    [][ /\ (pc = "check" /\ pc' = "bent") =>
              OrderedEmission(clean_events, clean_events', Scheduled(tracks'[1]))
        /\ (pc = "bent" /\ pc' = "save" /\ Len(tracks') = 2) =>
              OrderedEmission(bent_events, bent_events', Scheduled(tracks'[2])) ]_vars

\* reached: the Bent track is written and the sort has moved the PitchBend
\* of a later row in front of the equal-time NoteOn of an earlier row
C3_Witness ==
    /\ pc = "save" /\ Len(tracks) = 2
    /\ \E a, b \in 1..Len(bent_events) :
          /\ bent_events[a].type = "pitchwheel"
          /\ bent_events[b].type = "note_on"
          /\ bent_events[a].time = bent_events[b].time
          /\ bent_events[a].row > bent_events[b].row
          /\ a < b

RECURSIVE DeltaSum(_, _)
DeltaSum(stream, k) == IF k = 0 THEN 0 ELSE DeltaSum(stream, k - 1) + stream[k].time

\* the delta rule: max(0, event.time - last_time), last_time starting at 0
DeltaRule(stream, events) ==
    /\ Len(stream) = Len(events)
    /\ \A k \in 1..Len(events) :
          LET last_time == IF k = 1 THEN 0 ELSE events[k - 1].time
          IN  /\ stream[k].time = Max(0, events[k].time - last_time)
              /\ stream[k].time >= 0

\* C4 as stated: in every completed track of a non-empty partition the
\* deltas follow the delta rule and each event's running delta sum equals
\* its absolute tick time (so the total is the last event's time).
C4_DeltaSumAsStated ==
    \A t \in 1..Len(tracks) :
        (TrackComplete(t) /\ EventsOf(t) # <<>>) =>
            LET stream == Scheduled(tracks[t])
            IN  /\ DeltaRule(stream, EventsOf(t))
                /\ \A k \in 1..Len(stream) : DeltaSum(stream, k) = EventsOf(t)[k].time

\* C4 amended: the deltas follow the delta rule and each event's running
\* delta sum equals its absolute tick time minus min(0, time of the first
\* emitted event); it is the absolute tick time when no time is negative.
C4_DeltaSumInvariant ==
    \A t \in 1..Len(tracks) :
        (TrackComplete(t) /\ EventsOf(t) # <<>>) =>
            LET stream == Scheduled(tracks[t])
                first  == EventsOf(t)[1].time
            IN  /\ DeltaRule(stream, EventsOf(t))
                /\ \A k \in 1..Len(stream) :
                      DeltaSum(stream, k) = EventsOf(t)[k].time - Min(0, first)

\* reached: a complete track whose first event is at a negative tick and
\* whose last event is later than its first
C4_Witness ==
    \E t \in 1..Len(tracks) :
        /\ TrackComplete(t) /\ EventsOf(t) # <<>>
        /\ EventsOf(t)[1].time < 0
        /\ EventsOf(t)[Len(EventsOf(t))].time > EventsOf(t)[1].time
        /\ \E k \in 1..Len(EventsOf(t)) : Scheduled(tracks[t])[k].time > 0

\* C5: every NoteOn of either partition has a velocity in 0..127, and every
\* NoteOff has velocity 0.
C5_VelocityRange ==
    \A list \in {clean_events, bent_events} :
        \A k \in 1..Len(list) :
            /\ list[k].type = "note_on" => list[k].vel \in 0..127
            /\ list[k].type = "note_off" => list[k].vel = 0

\* ------------------------------------------------------------------------
\* The note-name grammar, stated on its own
\* ------------------------------------------------------------------------

\* semitone of a letter written in either case
LetterOffset(c) ==
    CASE c \in {"C", "c"} -> 0
      [] c \in {"D", "d"} -> 2
      [] c \in {"E", "e"} -> 4
      [] c \in {"F", "f"} -> 5
      [] c \in {"G", "g"} -> 7
      [] c \in {"A", "a"} -> 9
      [] c \in {"B", "b"} -> 11

LetterChars == {"A", "B", "C", "D", "E", "F", "G", "a", "b", "c", "d", "e", "f", "g"}

AllSpaces(s) == \A k \in 1..Len(s) : IsSpace(s[k])

\* positional value of a digit string
RECURSIVE Pow10(_)
Pow10(n) == IF n = 0 THEN 1 ELSE 10 * Pow10(n - 1)

RECURSIVE PlaceSum(_, _)
PlaceSum(ds, k) ==
    IF k > Len(ds) THEN 0
    ELSE DigitVal(ds[k]) * Pow10(Len(ds) - k) + PlaceSum(ds, k + 1)

\* every reading of s as
\*   spaces <letter A-G, either case> [# | b | B] [-] <digits> spaces:
\* the records [offset, accidental, octave] of the readings (at most one)
GrammarReadings(s) ==
    { [offset |-> LetterOffset(s[l + 1]),
       accidental |-> (IF a = 0 THEN 0 ELSE IF s[l + 2] = "#" THEN 1 ELSE 0 - 1),
       octave |-> (IF g = 1 THEN 0 - 1 ELSE 1)
                    * PlaceSum(SubSeq(s, l + 2 + a + g, Len(s) - r), 1)] :
        <<l, r, a, g>> \in
          { q \in (0..Len(s)) \X (0..Len(s)) \X (0..1) \X (0..1) :
              /\ q[1] + q[2] + q[3] + q[4] + 2 <= Len(s)
              /\ AllSpaces(SubSeq(s, 1, q[1]))
              /\ AllSpaces(SubSeq(s, Len(s) - q[2] + 1, Len(s)))
              /\ s[q[1] + 1] \in LetterChars
              /\ (q[3] = 1 => s[q[1] + 2] \in {"#", "b", "B"})
              /\ (q[4] = 1 => s[q[1] + 2 + q[3]] = "-")
              /\ \A k \in (q[1] + 2 + q[3] + q[4])..(Len(s) - q[2]) : IsDigit(s[k]) } }

\* the general rule, for the string a finished call was given
GrammarRule ==
    LET R == GrammarReadings(note_name)
    IN  IF R = {} THEN midi_result.raised
        ELSE /\ ~midi_result.raised
             /\ \A x \in R :
                   LET n == (x.octave + 1) * 12 + x.offset + x.accidental
                   IN  midi_result.value =
                          (IF n < 0 THEN 0 ELSE IF n > 127 THEN 127 ELSE n)

Gives(name, value) ==
    note_name = name => midi_result = [raised |-> FALSE, value |-> value]

\* C6 as stated: for a string of the grammar (surrounding whitespace and
\* letter case ignored, the sign of the octave being an optional "-") the
\* result is (octave + 1) * 12 + offset + accidental saturated into 0..127,
\* without failure; every other string fails with the invalid-format error;
\* C4 and c4 give 60, F#5 gives 66, Bb3 gives 58.
C6_AsStated ==
    pc = "pitch_done" =>
        /\ GrammarRule
        /\ Gives(<<"C", "4">>, 60)
        /\ Gives(<<"c", "4">>, 60)
        /\ Gives(<<"F", "#", "5">>, 66)
        /\ Gives(<<"B", "b", "3">>, 58)

\* C6 amended: the same, with F#5 giving 78 (66 is F#4).
C6_NoteNameToMidi ==
    pc = "pitch_done" =>
        /\ GrammarRule
        /\ Gives(<<"C", "4">>, 60)
        /\ Gives(<<"c", "4">>, 60)
        /\ Gives(<<"F", "#", "5">>, 78)
        /\ Gives(<<"F", "#", "4">>, 66)
        /\ Gives(<<"B", "b", "3">>, 58)

\* reached: B sharp in octave 9, which is 132 before saturation
C6_Witness ==
    /\ pc = "pitch_done"
    /\ note_name = <<" ", "b", "#", "9">>
    /\ midi_result = [raised |-> FALSE, value |-> 127]

\* ------------------------------------------------------------------------
\* Rows with errors, the file-level outcome, track assembly, note pairing
\* ------------------------------------------------------------------------

\* a row with a malformed note name or a non-numeric numeric field
InvalidRow(row) ==
    \/ note_name_to_midi(row.name).raised
    \/ row.bend.cls = "bad"
    \/ row.vel.cls = "bad"
    \/ row.dur.cls = "bad"
    \/ row.start.cls = "bad"

IsValidRow(row) == ~InvalidRow(row)

\* the loop of lines 87-141 run on the rows rs from row k on: the two lists
\* as the loop leaves them
RECURSIVE RunRows(_, _, _, _)
RunRows(rs, k, clean, bent) ==
    IF k > Len(rs) THEN [clean |-> clean, bent |-> bent]
    ELSE LET o == RowOutcome(rs[k])
         IN  IF o = "none"
             THEN IF target_list(rs[k]) = "clean"
                  THEN RunRows(rs, k + 1, clean \o RowEvents(rs[k], k), bent)
                  ELSE RunRows(rs, k + 1, clean, bent \o RowEvents(rs[k], k))
             ELSE IF o = "short" \/ InnerCatches(o)
             THEN RunRows(rs, k + 1, clean, bent)
             ELSE [clean |-> clean, bent |-> bent]

\* an event list without the auxiliary row field
Unrow(list) ==
    [k \in 1..Len(list) |->
        [f \in (DOMAIN list[k]) \ {"row"} |-> list[k][f]]]

\* C7: an invalid row puts no event into either partition, and when the
\* loop is over the two partitions are those the same file yields with its
\* invalid rows removed.
C7_SkipAndContinue ==
    /\ \A r \in 1..Len(rows) :
          InvalidRow(rows[r]) =>
              RowPositions(clean_events, r) = {} /\ RowPositions(bent_events, r) = {}
    /\ pc \in {"check"} \/ (pc = "done" /\ input = "ok" /\ tracks = <<>>) =>
          LET without == RunRows(SelectSeq(rows, IsValidRow), 1, <<>>, <<>>)
          IN  /\ Unrow(clean_events) = Unrow(without.clean)
              /\ Unrow(bent_events) = Unrow(without.bent)

\* C8: when the function is over, a document was saved iff the input file
\* exists and some row was accepted; otherwise it returned normally, with
\* no output and no track built.
C8_FileLevelOutcome ==
    pc = "done" =>
        /\ outcome \in {"saved", "returned"}
        /\ (outcome = "saved") <=> (input # "missing" /\ AcceptedRows # {})
        /\ (outcome # "saved" => output = <<>> /\ tracks = <<>>)

CountType(track, ty) == Cardinality({ k \in 1..Len(track) : track[k].type = ty })

HasChannel(m) == "channel" \in DOMAIN m

CarriesAll(track, events) ==
    LET stream == Scheduled(track)
    IN  /\ Len(stream) = Len(events)
        /\ \A k \in 1..Len(events) : Carries(stream[k], events[k])

\* C9: a saved document has the Clean track first, even with no clean row
\* accepted, and a second, Bent track iff some accepted row has a bend other
\* than 0; the tempo-set event occurs once in the document, in the Clean
\* track and before every channel message of it; the Clean track's channel
\* messages are on channel 0 and the Bent track's on channel 1; each track
\* ends with its only track-end marker.
C9_TrackAssembly ==
    outcome = "saved" =>
        /\ Len(output) \in {1, 2}
        /\ output[1][1] = [type |-> "track_name", name |-> "Standard Notes", time |-> 0]
        /\ CarriesAll(output[1], clean_events)
        /\ Cardinality({ r \in AcceptedRows : InputBend(r) = 0 }) * 2
              = Len(Scheduled(output[1]))
        /\ (Len(output) = 2) <=> (\E r \in AcceptedRows : InputBend(r) # 0)
        /\ (Len(output) = 2 => CarriesAll(output[2], bent_events))
        /\ CountType(output[1], "set_tempo") = 1
        /\ \A t \in 2..Len(output) : CountType(output[t], "set_tempo") = 0
        /\ \A a, b \in 1..Len(output[1]) :
              (output[1][a].type = "set_tempo" /\ HasChannel(output[1][b])) => a < b
        /\ \A t \in 1..Len(output) :
              /\ \A k \in 1..Len(output[t]) :
                    HasChannel(output[t][k]) => output[t][k].channel = t - 1
              /\ output[t][Len(output[t])].type = "end_of_track"
              /\ CountType(output[t], "end_of_track") = 1

\* reached: a document saved from bent rows only, so with an empty Clean
\* partition and two tracks
C9_Witness ==
    /\ outcome = "saved"
    /\ clean_events = <<>>
    /\ Len(output) = 2

\* C10: in every completed track, every accepted row whose duration is not
\* negative has its NoteOn emitted before its NoteOff.
C10_NoteOnBeforeNoteOff ==
    \A t \in 1..Len(tracks) :
        TrackComplete(t) =>
            \A r \in AcceptedRows :
                rows[r].dur.num >= 0 =>
                    \A a \in Positions(EventsOf(t), r, "note_on") :
                        \A b \in Positions(EventsOf(t), r, "note_off") : a < b

====
